---- MODULE Spec2Model ----
(***************************************************************************)
(* Model of the audio fingerprinting engine: the fingerprinter             *)
(* (fingerprinting.py), the hash database (database.py), the offset-voting *)
(* matcher (core/matcher.py), the result interpreter (core/utils.py) and   *)
(* the service that owns the live database (backend/service.py), and the   *)
(* research test runners (backend/research_helpers.py).                    *)
(*                                                                         *)
(* Python values are represented as follows.                               *)
(*   Optional[x]   the empty tuple << >> for None, <<x>> otherwise         *)
(*   dict          a function whose DOMAIN is the set of present keys;     *)
(*                 a dict whose iteration order is observable (votes,      *)
(*                 metadata) is a sequence of entries in insertion order   *)
(*   list          a sequence                                              *)
(*   fingerprint   <<f1, f2, dt, t1>>                                      *)
(*   hash key      <<f1, f2, dt>>                                          *)
(*   peak          <<t, f>>                                                *)
(***************************************************************************)
EXTENDS Integers, Sequences, FiniteSets, TLC

\* ------------------------------------------------------------------ bounds
\* Frames of a decoded clip are 0..MaxFrame.
MaxFrame == 3
\* add_song is called at most MaxAdds times in a run.
MaxAdds == 2
\* Scores handed to the result interpreter are -MaxScore..MaxScore.
MaxScore == 3001
\* Fingerprint lists handed directly to the single-song functions have at
\* most MaxFps entries, with anchor times 0..MaxTime.
MaxFps == 2
MaxTime == 2
\* extract_fingerprints is called directly with fanout 1..MaxFanout and
\* dt_min 0..MaxDtMin.
MaxFanout == 2
MaxDtMin == 2
\* interpret_match and seconds_to_mmss are called directly with offsets and
\* numerators -MaxOffset..MaxOffset.
MaxOffset == 5200

\* ------------------------------------------------- config.py DEFAULT_CONFIG
Sr == 44100
NFft == 2048
HopRatio == 4
FreqNeighborhood == 20
TimeNeighborhood == 20
AmplitudeThreshold == -35
NumBands == 6
Fanout == 10
DtMin == 2
DtMaxSeconds == 2

DEFAULT_CONFIG ==
    [sr |-> Sr, n_fft |-> NFft, hop_ratio |-> HopRatio,
     freq_neighborhood |-> FreqNeighborhood,
     time_neighborhood |-> TimeNeighborhood,
     amplitude_threshold |-> AmplitudeThreshold,
     num_bands |-> NumBands,
     fanout |-> Fanout, dt_min |-> DtMin, dt_max_seconds |-> DtMaxSeconds]

\* ------------------------------------------------ utils.py score thresholds
LowThreshold == 200
MediumThreshold == 1000
HighThreshold == 3000

None == << >>
Some(x) == <<x>>

\* -------------------------------------------------------------- config.py
\* a & b on non-negative integers.
RECURSIVE BitAnd(_, _)
BitAnd(a, b) ==
    IF a = 0 \/ b = 0 THEN 0
    ELSE (a % 2) * (b % 2) + 2 * BitAnd(a \div 2, b \div 2)

required_keys ==
    <<"sr", "n_fft", "hop_ratio", "freq_neighborhood", "time_neighborhood",
      "amplitude_threshold", "num_bands", "fanout", "dt_min", "dt_max_seconds">>

\* validate_config: True, or the message of the ValueError it raises. The
\* checks run in the order of the code and the first that fails raises.
validate_config(cfg) ==
    LET missing == {i \in 1 .. Len(required_keys) :
                       required_keys[i] \notin DOMAIN cfg}
    IN  IF missing # {}
        THEN [ok |-> FALSE, raised |-> "Missing required config key"]
        ELSE IF cfg.sr <= 0
        THEN [ok |-> FALSE, raised |-> "sr must be positive"]
        ELSE IF cfg.n_fft <= 0 \/ BitAnd(cfg.n_fft, cfg.n_fft - 1) # 0
        THEN [ok |-> FALSE, raised |-> "n_fft must be a positive power of 2"]
        ELSE IF cfg.hop_ratio <= 0
        THEN [ok |-> FALSE, raised |-> "hop_ratio must be positive"]
        ELSE IF cfg.num_bands <= 0
        THEN [ok |-> FALSE, raised |-> "num_bands must be positive"]
        ELSE IF cfg.fanout <= 0
        THEN [ok |-> FALSE, raised |-> "fanout must be positive"]
        ELSE IF cfg.dt_min < 0
        THEN [ok |-> FALSE, raised |-> "dt_min must be non-negative"]
        ELSE IF cfg.dt_max_seconds <= 0
        THEN [ok |-> FALSE, raised |-> "dt_max_seconds must be positive"]
        ELSE [ok |-> TRUE, raised |-> ""]

Songs == {"A", "B"}
Frames == 0 .. MaxFrame
\* Frequency bins that hold energy in the modelled clips.
Bins == {0}

Abs(x) == IF x < 0 THEN -x ELSE x

\* ------------------------------------------------------- fingerprinting.py
\* hop_length = n_fft // hop_ratio
hop_length_of(n_fft, hop_ratio) == n_fft \div hop_ratio

\* dt_max = int(dt_max_seconds * sr / hop_length), for hop_length > 0
dt_max(sr, n_fft, hop_ratio, dt_max_seconds) ==
    (dt_max_seconds * sr) \div hop_length_of(n_fft, hop_ratio)

\* The two under DEFAULT_CONFIG.
HopLength == hop_length_of(NFft, HopRatio)
DtMax == dt_max(Sr, NFft, HopRatio, DtMaxSeconds)

\* librosa.amplitude_to_db(S, ref=np.max). A spectrogram is a function
\* from cells <<t, f>> to levels; a level of S is 20 * log10(max(amin, |S|))
\* with amin = 1e-5, so AminDb is the level of every magnitude up to amin,
\* zero included. The reference is the largest level, and the result is
\* kept within top_db = 80 of its largest value.
AminDb == -100
TopDb == 80

MaxOf(S) == CHOOSE x \in S : \A y \in S : y <= x

amplitude_to_db(S) ==
    LET ref == MaxOf({S[c] : c \in DOMAIN S})
        log_spec == [c \in DOMAIN S |-> S[c] - ref]
        top == MaxOf({log_spec[c] : c \in DOMAIN S})
    IN  [c \in DOMAIN S |->
            IF log_spec[c] < top - TopDb THEN top - TopDb ELSE log_spec[c]]

\* band_size, f_start and f_end of band b.
band_size(freq_bins, num_bands) == freq_bins \div num_bands
f_start(b, freq_bins, num_bands) == b * band_size(freq_bins, num_bands)

\* Mutant: the last band ends like the others.
f_end_NoRemainder(b, freq_bins, num_bands) ==
    (b + 1) * band_size(freq_bins, num_bands)

f_end(b, freq_bins, num_bands) ==
    IF b = num_bands - 1 THEN freq_bins
    ELSE (b + 1) * band_size(freq_bins, num_bands)

\* The index scipy's default border mode (reflect) reads for position i of
\* an axis of n cells: d c b a | a b c d | d c b a.
Reflect(i, n) ==
    LET j == i % (2 * n) IN IF j < n THEN j ELSE 2 * n - 1 - j

\* maximum_filter(band, size=(freq_neighborhood, time_neighborhood)) at the
\* cell <<t, f>> of the band of bins lo .. hi - 1 over n_frames frames: a
\* window of size n reaches from n div 2 cells before to n - n div 2 - 1
\* cells after.
maximum_filter(S_db, lo, hi, n_frames, fn, tn, t, f) ==
    MaxOf({S_db[<<Reflect(t + dt, n_frames), lo + Reflect(f - lo + df, hi - lo)>>] :
              dt \in (-(tn \div 2)) .. (tn - tn \div 2 - 1),
              df \in (-(fn \div 2)) .. (fn - fn \div 2 - 1)})

\* The peak mask: the loop over the bands, each marking its own cells.
\* The cells of S_db are <<t, f>> for t < n_frames and f < freq_bins.
band_peaks(S_db, b, freq_bins, n_frames, num_bands, fn, tn, threshold) ==
    LET lo == f_start(b, freq_bins, num_bands)
        hi == f_end(b, freq_bins, num_bands)
    IN  {c \in DOMAIN S_db :
            /\ lo <= c[2] /\ c[2] < hi
            /\ S_db[c] = maximum_filter(S_db, lo, hi, n_frames, fn, tn, c[1], c[2])
            /\ S_db[c] > threshold}

pick_peaks(S_db, freq_bins, n_frames, num_bands, fn, tn, threshold) ==
    UNION {band_peaks(S_db, b, freq_bins, n_frames, num_bands, fn, tn, threshold) :
              b \in 0 .. num_bands - 1}

\* np.where(peaks) walks the boolean array in row-major order (frequency,
\* then time); zip(time_idx, freq_idx) turns each hit into (t, f).
RECURSIVE WherePeaks(_)
WherePeaks(P) ==
    IF P = {} THEN << >>
    ELSE LET p == CHOOSE x \in P :
                    \A y \in P : x[2] < y[2] \/ (x[2] = y[2] /\ x[1] <= y[1])
         IN  <<p>> \o WherePeaks(P \ {p})

RemoveAt(s, i) == SubSeq(s, 1, i - 1) \o SubSeq(s, i + 1, Len(s))

\* peak_list.sort(key=lambda x: x[0]): a stable sort by time.
RECURSIVE SortByTime(_)
SortByTime(s) ==
    IF s = << >> THEN << >>
    ELSE LET i == CHOOSE i \in 1 .. Len(s) :
                    \A j \in 1 .. Len(s) :
                        s[i][1] < s[j][1] \/ (s[i][1] = s[j][1] /\ i <= j)
         IN  <<s[i]>> \o SortByTime(RemoveAt(s, i))

PeakList(P) == SortByTime(WherePeaks(P))

\* Mutant: the fan-out test is made before the count is raised, so an
\* anchor emits one fingerprint more.
RECURSIVE ScanTargets_LateFanout(_, _, _, _, _, _, _)
ScanTargets_LateFanout(pl, i, j, count, fanout, dtmin, dtmax) ==
    IF j > Len(pl) THEN << >>
    ELSE LET dt == pl[j][1] - pl[i][1] IN
         IF dt < dtmin THEN ScanTargets_LateFanout(pl, i, j + 1, count,
                                                   fanout, dtmin, dtmax)
         ELSE IF dt > dtmax THEN << >>
         ELSE <<<<pl[i][2], pl[j][2], dt, pl[i][1]>>>> \o
              (IF count >= fanout THEN << >>
               ELSE ScanTargets_LateFanout(pl, i, j + 1, count + 1,
                                           fanout, dtmin, dtmax))

\* Mutant: a target beyond dt_max is emitted like any other.
RECURSIVE ScanTargets_NoDtMax(_, _, _, _, _, _, _)
ScanTargets_NoDtMax(pl, i, j, count, fanout, dtmin, dtmax) ==
    IF j > Len(pl) THEN << >>
    ELSE LET dt == pl[j][1] - pl[i][1] IN
         IF dt < dtmin THEN ScanTargets_NoDtMax(pl, i, j + 1, count,
                                                fanout, dtmin, dtmax)
         ELSE <<<<pl[i][2], pl[j][2], dt, pl[i][1]>>>> \o
              (IF count + 1 >= fanout THEN << >>
               ELSE ScanTargets_NoDtMax(pl, i, j + 1, count + 1,
                                        fanout, dtmin, dtmax))

\* The inner loop over targets j of anchor i, with `count` fingerprints
\* already emitted for this anchor.
RECURSIVE ScanTargets(_, _, _, _, _, _, _)
ScanTargets(pl, i, j, count, fanout, dtmin, dtmax) ==
    IF j > Len(pl) THEN << >>
    ELSE LET dt == pl[j][1] - pl[i][1] IN
         IF dt < dtmin THEN ScanTargets(pl, i, j + 1, count, fanout, dtmin, dtmax)
         ELSE IF dt > dtmax THEN << >>
         ELSE <<<<pl[i][2], pl[j][2], dt, pl[i][1]>>>> \o
              (IF count + 1 >= fanout THEN << >>
               ELSE ScanTargets(pl, i, j + 1, count + 1, fanout, dtmin, dtmax))

\* The outer loop over anchors i.
RECURSIVE ScanAnchors(_, _, _, _, _)
ScanAnchors(pl, i, fanout, dtmin, dtmax) ==
    IF i > Len(pl) THEN << >>
    ELSE ScanTargets(pl, i, i + 1, 0, fanout, dtmin, dtmax) \o
         ScanAnchors(pl, i + 1, fanout, dtmin, dtmax)

\* extract_fingerprints from the peak mask onwards: P is the set of cells
\* (t, f) the peak picker marked. The peak picker's own parameters
\* (freq_neighborhood, time_neighborhood, amplitude_threshold, num_bands)
\* have acted before P.
extract_fingerprints(P, sr, n_fft, hop_ratio, fanout, dtmin, dt_max_seconds) ==
    ScanAnchors(PeakList(P), 1, fanout, dtmin,
                dt_max(sr, n_fft, hop_ratio, dt_max_seconds))

\* The call add_song and recognize_audio make, with the fields of a
\* configuration as arguments.
ExtractWith(P, cfg) ==
    extract_fingerprints(P, cfg.sr, cfg.n_fft, cfg.hop_ratio,
                         cfg.fanout, cfg.dt_min, cfg.dt_max_seconds)

\* extract_fingerprints from the magnitude spectrogram S onwards.
extract_from_spectrogram(S, freq_bins, n_frames, cfg) ==
    LET peaks == pick_peaks(amplitude_to_db(S), freq_bins, n_frames,
                            cfg.num_bands, cfg.freq_neighborhood,
                            cfg.time_neighborhood, cfg.amplitude_threshold)
    IN  [peaks |-> peaks,
         fingerprints |-> extract_fingerprints(peaks, cfg.sr, cfg.n_fft,
                              cfg.hop_ratio, cfg.fanout, cfg.dt_min,
                              cfg.dt_max_seconds)]

\* ------------------------------------------------------------- database.py
HashKey(fp) == <<fp[1], fp[2], fp[3]>>

\* Mutant: the entry is put at the front of its bucket.
DictAppend_Prepend(d, k, v) ==
    IF k \in DOMAIN d THEN [d EXCEPT ![k] = <<v>> \o @]
    ELSE d @@ (k :> <<v>>)

\* db[hash_key].append(entry) on a defaultdict(list)
DictAppend(d, k, v) ==
    IF k \in DOMAIN d THEN [d EXCEPT ![k] = Append(@, v)]
    ELSE d @@ (k :> <<v>>)

EmptyDict == [k \in {} |-> << >>]

\* The inner loop of build_song_database over one song's fingerprints.
RECURSIVE InsertFingerprints(_, _, _, _)
InsertFingerprints(d, song, fps, i) ==
    IF i > Len(fps) THEN d
    ELSE InsertFingerprints(DictAppend(d, HashKey(fps[i]), <<song, fps[i][4]>>),
                            song, fps, i + 1)

\* build_song_database over the items of song_fingerprints, a sequence of
\* <<song_name, fingerprints>> in the dict's order: <<db, metadata>> with
\* metadata a function song_name -> [num_fingerprints].
RECURSIVE BuildFrom(_, _, _, _)
BuildFrom(d, md, items, i) ==
    IF i > Len(items) THEN <<d, md>>
    ELSE LET song == items[i][1]
             fps  == items[i][2]
             rec  == [num_fingerprints |-> Len(fps)]
         IN  BuildFrom(InsertFingerprints(d, song, fps, 1),
                       IF song \in DOMAIN md THEN [md EXCEPT ![song] = rec]
                       ELSE md @@ (song :> rec),
                       items, i + 1)

build_song_database(items) == BuildFrom(EmptyDict, EmptyDict, items, 1)

RECURSIVE InsertTimes(_, _, _)
InsertTimes(d, fps, i) ==
    IF i > Len(fps) THEN d
    ELSE InsertTimes(DictAppend(d, HashKey(fps[i]), fps[i][4]), fps, i + 1)

\* Mutant: a bucket holds each anchor time once.
build_single_song_db_Unique(fps) ==
    LET d == InsertTimes(EmptyDict, fps, 1)
        first(s) == {i \in 1 .. Len(s) : \A j \in 1 .. i - 1 : s[j] # s[i]}
    IN  [k \in DOMAIN d |->
            [n \in 1 .. Cardinality(first(d[k])) |->
                d[k][CHOOSE i \in first(d[k]) :
                        Cardinality({j \in first(d[k]) : j < i}) = n - 1]]]

build_single_song_db(fps) == InsertTimes(EmptyDict, fps, 1)

\* --------------------------------------------------------- core/matcher.py
\* votes[k] += 1 on a defaultdict(int): votes is the sequence of <<k, n>>
\* in the order the keys were first voted for.
RECURSIVE VoteAt(_, _, _)
VoteAt(votes, k, i) ==
    IF i > Len(votes) THEN Append(votes, <<k, 1>>)
    ELSE IF votes[i][1] = k THEN [votes EXCEPT ![i] = <<k, votes[i][2] + 1>>]
    ELSE VoteAt(votes, k, i + 1)

\* Mutant: a key voted for the first time is put in front of the others.
Vote_Prepend(votes, k) ==
    IF \E i \in 1 .. Len(votes) : votes[i][1] = k
    THEN VoteAt(votes, k, 1)
    ELSE <<<<k, 1>>>> \o votes

Vote(votes, k) == VoteAt(votes, k, 1)

\* Mutant: on equal counts the last key wins.
ArgMaxIndex_Last(votes) ==
    CHOOSE i \in 1 .. Len(votes) :
        /\ \A j \in 1 .. Len(votes) : votes[j][2] <= votes[i][2]
        /\ \A j \in i + 1 .. Len(votes) : votes[j][2] < votes[i][2]

\* max(votes, key=votes.get): the first key, in iteration order, whose
\* count no other key exceeds.
ArgMaxIndex(votes) ==
    CHOOSE i \in 1 .. Len(votes) :
        /\ \A j \in 1 .. Len(votes) : votes[j][2] <= votes[i][2]
        /\ \A j \in 1 .. i - 1 : votes[j][2] < votes[i][2]

\* Mutant: the offset is taken as t_query - t_db.
RECURSIVE SingleBucketVotes_Reversed(_, _, _, _)
SingleBucketVotes_Reversed(votes, bucket, tq, i) ==
    IF i > Len(bucket) THEN votes
    ELSE SingleBucketVotes_Reversed(Vote(votes, tq - bucket[i]), bucket, tq, i + 1)

\* for t_db in db[hash_key]: offset_votes[t_db - t_query] += 1
RECURSIVE SingleBucketVotes(_, _, _, _)
SingleBucketVotes(votes, bucket, tq, i) ==
    IF i > Len(bucket) THEN votes
    ELSE SingleBucketVotes(Vote(votes, bucket[i] - tq), bucket, tq, i + 1)

RECURSIVE SingleVotes(_, _, _, _)
SingleVotes(votes, q, d, i) ==
    IF i > Len(q) THEN votes
    ELSE LET k == HashKey(q[i]) IN
         SingleVotes(IF k \in DOMAIN d
                     THEN SingleBucketVotes(votes, d[k], q[i][4], 1)
                     ELSE votes,
                     q, d, i + 1)

\* query_single_song: <<best_offset, score>>
query_single_song(q, d) ==
    LET votes == SingleVotes(<< >>, q, d, 1) IN
    IF votes = << >> THEN <<None, 0>>
    ELSE LET b == ArgMaxIndex(votes) IN <<Some(votes[b][1]), votes[b][2]>>

\* Mutant: the offset is taken as t_query - t_db.
RECURSIVE MultiBucketVotes_Reversed(_, _, _, _)
MultiBucketVotes_Reversed(votes, bucket, tq, i) ==
    IF i > Len(bucket) THEN votes
    ELSE MultiBucketVotes_Reversed(Vote(votes, <<bucket[i][1], tq - bucket[i][2]>>),
                                   bucket, tq, i + 1)

\* for song_name, t_db in db[hash_key]: votes[(song_name, t_db - t_query)] += 1
RECURSIVE MultiBucketVotes(_, _, _, _)
MultiBucketVotes(votes, bucket, tq, i) ==
    IF i > Len(bucket) THEN votes
    ELSE MultiBucketVotes(Vote(votes, <<bucket[i][1], bucket[i][2] - tq>>),
                          bucket, tq, i + 1)

\* Mutant: the lookup compares the frequency pair only, not dt.
RECURSIVE MultiVotes_IgnoreDt(_, _, _, _)
MultiVotes_IgnoreDt(votes, q, d, i) ==
    IF i > Len(q) THEN votes
    ELSE LET k == HashKey(q[i])
             near == {k2 \in DOMAIN d : k2[1] = k[1] /\ k2[2] = k[2]}
         IN  MultiVotes_IgnoreDt(
                 IF near # {}
                 THEN MultiBucketVotes(votes,
                          d[IF k \in near THEN k ELSE CHOOSE k2 \in near : TRUE],
                          q[i][4], 1)
                 ELSE votes,
                 q, d, i + 1)

RECURSIVE MultiVotes(_, _, _, _)
MultiVotes(votes, q, d, i) ==
    IF i > Len(q) THEN votes
    ELSE LET k == HashKey(q[i]) IN
         MultiVotes(IF k \in DOMAIN d
                    THEN MultiBucketVotes(votes, d[k], q[i][4], 1)
                    ELSE votes,
                    q, d, i + 1)

\* Mutant: the bucket is fetched from a defaultdict without the test, which
\* gives a missing key an empty bucket.
AfterLookup_Default(d, k) ==
    IF k \in DOMAIN d THEN d ELSE d @@ (k :> << >>)

\* What `if hash_key in db: for ... in db[hash_key]` leaves of db: the
\* test and the iteration only read, and a missing key is not fetched.
AfterLookup(d, k) == d

\* db after the vote loop over the query fingerprints from the i-th on.
RECURSIVE AfterQuery(_, _, _)
AfterQuery(d, q, i) ==
    IF i > Len(q) THEN d
    ELSE AfterQuery(AfterLookup(d, HashKey(q[i])), q, i + 1)

\* The end of query_multi_song, from `if not votes` on.
BestMatch(votes) ==
    IF votes = << >> THEN <<None, None, 0>>
    ELSE LET b == ArgMaxIndex(votes)
         IN  <<Some(votes[b][1][1]), Some(votes[b][1][2]), votes[b][2]>>

\* query_multi_song: <<song_name, offset, score>>
query_multi_song(q, d) == BestMatch(MultiVotes(<< >>, q, d, 1))

\* ----------------------------------------------------------- core/utils.py
\* Mutant: the thresholds are compared with <=.
confidence_label_Inclusive(score) ==
    IF score <= LowThreshold THEN "No match"
    ELSE IF score <= MediumThreshold THEN "Low confidence"
    ELSE IF score <= HighThreshold THEN "Medium confidence"
    ELSE "High confidence"

confidence_label(score) ==
    IF score < LowThreshold THEN "No match"
    ELSE IF score < MediumThreshold THEN "Low confidence"
    ELSE IF score < HighThreshold THEN "Medium confidence"
    ELSE "High confidence"

\* Mutant: the sign of the argument is kept.
seconds_to_mmss_Signed(num, den) ==
    LET seconds == num \div den
        minutes == seconds \div 60
        secs    == seconds % 60
    IN  <<minutes, secs \div 10, secs % 10>>

\* seconds_to_mmss of the quotient num / den (den > 0):
\* int(abs(seconds)), then f"{minutes}:{secs:02d}" as
\* <<minutes, tens digit, units digit>>.
seconds_to_mmss(num, den) ==
    LET seconds == Abs(num) \div den
        minutes == seconds \div 60
        secs    == seconds % 60
    IN  <<minutes, secs \div 10, secs % 10>>

\* Mutant: the unmatched result carries no raw_score.
interpret_match_NoRawScore(song_name, best_offset, score, hop_length, sr) ==
    LET confidence == confidence_label(score) IN
    IF confidence = "No match" \/ song_name = None \/ best_offset = None
    THEN [matched |-> FALSE,
          message |-> "No matching song detected"]
    ELSE [matched |-> TRUE,
          song |-> song_name[1],
          position_in_song |-> seconds_to_mmss(best_offset[1] * hop_length, sr),
          confidence |-> confidence,
          raw_score |-> score]

interpret_match(song_name, best_offset, score, hop_length, sr) ==
    LET confidence == confidence_label(score) IN
    IF confidence = "No match" \/ song_name = None \/ best_offset = None
    THEN [matched |-> FALSE,
          message |-> "No matching song detected",
          raw_score |-> score]
    ELSE [matched |-> TRUE,
          song |-> song_name[1],
          position_in_song |-> seconds_to_mmss(best_offset[1] * hop_length, sr),
          confidence |-> confidence,
          raw_score |-> score]

\* ------------------------------------------------------ backend/service.py
VARIABLES
    db,        \* self.db: hash key -> list of <<song_name, t1>>
    metadata,  \* self.metadata: sequence of <<song_name, record>> in dict order
    disk,      \* the file at self.db_path
    ret,       \* what the latest call returned, with its arguments; for
               \* add_song also the fingerprints it extracted and what its
               \* save_database returned (None when it was not called)
    addRet,    \* what the latest add_song on this instance returned, or None
    nAdds,     \* number of add_song calls so far
    call,      \* a direct call of a library function: its arguments and result
    config,    \* self.config
    threads    \* the calls in progress on threads that share the service

vars == <<db, metadata, disk, ret, addRet, nAdds, call, config, threads>>

\* The decoded audio files a caller may hand in: a file load_audio cannot
\* read, or a clip given by the cells (t, f) its spectrogram peaks at.
\* Every clip holds one hop of samples per frame after the first:
\* LenY under DEFAULT_CONFIG, len_y(cfg) in general.
len_y(cfg) == MaxFrame * hop_length_of(cfg.n_fft, cfg.hop_ratio)
LenY == len_y(DEFAULT_CONFIG)
AudioFiles ==
    {[readable |-> FALSE, peaks |-> {}]} \cup
    {[readable |-> TRUE, peaks |-> P] : P \in SUBSET (Frames \X Bins)}

NoFile == [kind |-> "none"]
Corrupt == [kind |-> "corrupt"]
Pickle(d, md) == [kind |-> "pickle", db |-> d, metadata |-> md]

MetaNames(md) == {md[i][1] : i \in 1 .. Len(md)}

\* Mutant: the assignment adds an entry even when the name is present.
MetaSet_Append(md, name, rec) == Append(md, <<name, rec>>)

\* self.metadata[song_name] = rec
MetaSet(md, name, rec) ==
    IF name \in MetaNames(md)
    THEN [i \in 1 .. Len(md) |-> IF md[i][1] = name THEN <<name, rec>> ELSE md[i]]
    ELSE Append(md, <<name, rec>>)

\* Mutant: the file is written without the metadata.
save_database_DbOnly(d, md, file) ==
    {<<[kind |-> "pickle", db |-> d, metadata |-> << >>], TRUE>>,
     <<file, FALSE>>, <<[kind |-> "corrupt"], FALSE>>}

\* Mutant: only the index is taken from the file.
load_database_DbOnly(d, md, file) ==
    IF file.kind = "pickle" THEN <<file.db, md, TRUE>>
    ELSE <<d, md, FALSE>>

\* load_database: <<db, metadata, returned>> given the current pair.
load_database(d, md, file) ==
    IF file.kind = "pickle" THEN <<file.db, file.metadata, TRUE>>
    ELSE <<d, md, FALSE>>

\* save_database: the files it may leave and whether it returned True.
\* open(..., 'wb') may fail before touching the file; pickle.dump may fail
\* after the file was truncated.
save_database(d, md, file) ==
    {<<Pickle(d, md), TRUE>>, <<file, FALSE>>, <<Corrupt, FALSE>>}

\* Mutant: a key the index already has keeps its bucket as it is.
MergeDb_KeepExisting(d, new_db) ==
    [k \in DOMAIN d \cup DOMAIN new_db |->
        IF k \in DOMAIN d THEN d[k] ELSE new_db[k]]

\* Mutant: a key the index already has gets the new entries in place of
\* its bucket.
MergeDb_Replace(d, new_db) ==
    [k \in DOMAIN d \cup DOMAIN new_db |->
        IF k \in DOMAIN new_db THEN new_db[k] ELSE d[k]]

\* The merge loop of add_song.
MergeDb(d, new_db) ==
    [k \in DOMAIN d \cup DOMAIN new_db |->
        IF k \in DOMAIN d
        THEN (IF k \in DOMAIN new_db THEN d[k] \o new_db[k] ELSE d[k])
        ELSE new_db[k]]

\* The metadata update of add_song; duration_seconds is the quotient
\* len(y) / sr, kept as the pair.
MergeMetadata(md, song_name, new_metadata, n_samples, sr) ==
    MetaSet(md, song_name,
            [num_fingerprints |-> new_metadata[song_name].num_fingerprints,
             duration_seconds |-> <<n_samples, sr>>])

\* --------------------------------------------- backend/research_helpers.py
\* result.get(key): None when the dict has no such key.
DictGet(d, k) == IF k \in DOMAIN d THEN Some(d[k]) ELSE None

\* What each of run_single_noise_test, run_single_codec_test and
\* run_single_mic_test builds from the result of service.recognize_audio;
\* each adds the parameters of its degradation.
runner_report(result) ==
    [matched |-> /\ (IF "matched" \in DOMAIN result THEN result.matched ELSE FALSE)
                 /\ DictGet(result, "song_name") # None,
     score |-> IF "score" \in DOMAIN result THEN result.score ELSE 0,
     timestamp |-> "iso-time-placeholder",
     detected_song |-> DictGet(result, "song_name")]

NoCall == [fn |-> "none"]

\* The threads that may call into the service, and a thread with no call
\* in progress.
Threads == {1, 2}
Idle == [pc |-> "idle"]
NoThreads == [t \in Threads |-> Idle]

\* AudioFingerprintingService() with no file at db_path.
InitService ==
    /\ db = EmptyDict
    /\ metadata = << >>
    /\ disk = NoFile
    /\ ret = [op |-> "init", loaded |-> FALSE]
    /\ addRet = None
    /\ nAdds = 0
    /\ config = DEFAULT_CONFIG
    /\ threads = NoThreads

Init ==
    /\ InitService
    /\ call = NoCall

\* AudioFingerprintingService(): a new process constructs the service over
\* the file the previous one left.
Restart ==
    LET l == load_database(EmptyDict, << >>, disk) IN
    /\ db' = l[1]
    /\ metadata' = l[2]
    /\ ret' = [op |-> "init", loaded |-> l[3]]
    /\ addRet' = None
    /\ UNCHANGED <<disk, nAdds, call, config, threads>>

\* Mutant: the metadata entry is written before the audio is loaded, so a
\* file that cannot be loaded leaves an entry without fingerprints.
AddSong_MetadataFirst(audio, song_name) ==
    /\ nAdds < MaxAdds
    /\ nAdds' = nAdds + 1
    /\ ~audio.readable
    /\ metadata' = MetaSet(metadata, song_name,
                           [num_fingerprints |-> 0,
                            duration_seconds |-> <<0, config.sr>>])
    /\ ret' = [op |-> "add", song_name |-> song_name,
               success |-> FALSE, count |-> 0,
               message |-> "Error adding song",
               fingerprints |-> << >>, saved |-> None]
    /\ addRet' = Some(ret')
    /\ UNCHANGED <<db, disk, call, config, threads>>

AddSong(audio, song_name) ==
    /\ nAdds < MaxAdds
    /\ nAdds' = nAdds + 1
    /\ UNCHANGED <<call, config, threads>>
    /\ IF ~audio.readable
       THEN /\ ret' = [op |-> "add", song_name |-> song_name,
                       success |-> FALSE, count |-> 0,
                       message |-> "Error adding song",
                       fingerprints |-> << >>, saved |-> None]
            /\ addRet' = Some(ret')
            /\ UNCHANGED <<db, metadata, disk>>
       ELSE LET fingerprints == ExtractWith(audio.peaks, config)
                built == build_song_database(<<<<song_name, fingerprints>>>>)
            IN  /\ db' = MergeDb(db, built[1])
                /\ metadata' = MergeMetadata(metadata, song_name, built[2],
                                             len_y(config), config.sr)
                /\ \E s \in save_database(db', metadata', disk) :
                       /\ disk' = s[1]
                       /\ ret' = [op |-> "add", song_name |-> song_name,
                                  success |-> TRUE, count |-> Len(fingerprints),
                                  message |-> "Successfully added",
                                  fingerprints |-> fingerprints,
                                  saved |-> Some(s[2])]
                /\ addRet' = Some(ret')

RecognizeAudio(audio) ==
    /\ IF ~audio.readable
       THEN /\ ret' = [op |-> "recognize", failed |-> TRUE,
                       query |-> << >>, match |-> << >>,
                       result |-> [matched |-> FALSE,
                                   message |-> "Error during recognition"]]
            /\ db' = db
       ELSE LET query_fingerprints == ExtractWith(audio.peaks, config)
                m == query_multi_song(query_fingerprints, db)
            IN  /\ ret' = [op |-> "recognize", failed |-> FALSE,
                           query |-> query_fingerprints, match |-> m,
                           result |-> interpret_match(
                                          m[1], m[2], m[3],
                                          hop_length_of(config.n_fft, config.hop_ratio),
                                          config.sr)]
                /\ db' = AfterQuery(db, query_fingerprints, 1)
    /\ UNCHANGED <<metadata, disk, addRet, nAdds, call, config, threads>>

GetSongsList ==
    /\ ret' = [op |-> "list",
               songs |-> [i \in 1 .. Len(metadata) |->
                            [name |-> metadata[i][1],
                             fingerprints_count |-> metadata[i][2].num_fingerprints,
                             duration_seconds |-> metadata[i][2].duration_seconds]],
               total_songs |-> Len(metadata),
               total_hashes |-> Cardinality(DOMAIN db)]
    /\ UNCHANGED <<db, metadata, disk, addRet, nAdds, call, config, threads>>

Next ==
    \/ \E audio \in AudioFiles, song_name \in Songs : AddSong(audio, song_name)
    \/ \E audio \in AudioFiles : RecognizeAudio(audio)
    \/ GetSongsList
    \/ Restart

Spec == Init /\ [][Next]_vars

\* ------------------------------------------- calls on several threads
\* Two threads share the service object and each makes one call. A thread
\* runs uninterrupted while it works on its own locals; between two
\* accesses to self.db or self.metadata the other thread may run. Nothing
\* in the service takes a lock.

\* The keys of new_db in the order new_db.items() yields them: the order
\* in which the fingerprints first use them.
RECURSIVE KeyOrder(_, _, _)
KeyOrder(fps, i, seen) ==
    IF i > Len(fps) THEN seen
    ELSE KeyOrder(fps, i + 1,
                  IF \E j \in 1 .. Len(seen) : seen[j] = HashKey(fps[i])
                  THEN seen ELSE Append(seen, HashKey(fps[i])))

\* add_song up to the merge loop: load_audio, extract_fingerprints and
\* build_song_database work on locals.
BeginAddSong(t, audio, song_name) ==
    /\ threads[t].pc = "idle"
    /\ nAdds < MaxAdds
    /\ nAdds' = nAdds + 1
    /\ IF ~audio.readable
       THEN threads' = [threads EXCEPT ![t] =
                [pc |-> "done", op |-> "add", song_name |-> song_name,
                 success |-> FALSE, count |-> 0]]
       ELSE LET fingerprints == ExtractWith(audio.peaks, config)
                built == build_song_database(<<<<song_name, fingerprints>>>>)
            IN  threads' = [threads EXCEPT ![t] =
                    [pc |-> "merge", op |-> "add", song_name |-> song_name,
                     fingerprints |-> fingerprints, new_db |-> built[1],
                     new_metadata |-> built[2],
                     keys |-> KeyOrder(fingerprints, 1, << >>)]]
    /\ UNCHANGED <<db, metadata, disk, ret, addRet, call, config>>

\* `if hash_key in self.db` for the next item of new_db.
MergeTest(t) ==
    /\ threads[t].pc = "merge"
    /\ threads[t].keys # << >>
    /\ threads' = [threads EXCEPT ![t] =
           [pc |-> "write", op |-> "add", song_name |-> threads[t].song_name,
            fingerprints |-> threads[t].fingerprints,
            new_db |-> threads[t].new_db,
            new_metadata |-> threads[t].new_metadata,
            keys |-> threads[t].keys,
            found |-> (Head(threads[t].keys) \in DOMAIN db)]]
    /\ UNCHANGED <<db, metadata, disk, ret, addRet, nAdds, call, config>>

\* The branch the test chose: self.db[hash_key].extend(entries), or
\* self.db[hash_key] = entries.
MergeWrite(t) ==
    /\ threads[t].pc = "write"
    /\ LET k == Head(threads[t].keys)
           entries == threads[t].new_db[k]
       IN  db' = IF threads[t].found
                 THEN [db EXCEPT ![k] = @ \o entries]
                 ELSE [x \in DOMAIN db \cup {k} |->
                          IF x = k THEN entries ELSE db[x]]
    /\ threads' = [threads EXCEPT ![t] =
           [pc |-> "merge", op |-> "add", song_name |-> threads[t].song_name,
            fingerprints |-> threads[t].fingerprints,
            new_db |-> threads[t].new_db,
            new_metadata |-> threads[t].new_metadata,
            keys |-> Tail(threads[t].keys)]]
    /\ UNCHANGED <<metadata, disk, ret, addRet, nAdds, call, config>>

\* add_song after the merge loop: the metadata update, save_database and
\* the return.
FinishAddSong(t) ==
    /\ threads[t].pc = "merge"
    /\ threads[t].keys = << >>
    /\ metadata' = MergeMetadata(metadata, threads[t].song_name,
                                 threads[t].new_metadata,
                                 len_y(config), config.sr)
    /\ \E s \in save_database(db, metadata', disk) : disk' = s[1]
    /\ threads' = [threads EXCEPT ![t] =
           [pc |-> "done", op |-> "add", song_name |-> threads[t].song_name,
            success |-> TRUE, count |-> Len(threads[t].fingerprints),
            new_db |-> threads[t].new_db]]
    /\ UNCHANGED <<db, ret, addRet, nAdds, call, config>>

\* recognize_audio up to the vote loop of query_multi_song.
BeginRecognize(t, audio) ==
    /\ threads[t].pc = "idle"
    /\ IF ~audio.readable
       THEN threads' = [threads EXCEPT ![t] =
                [pc |-> "done", op |-> "recognize", failed |-> TRUE,
                 query |-> << >>, match |-> << >>,
                 result |-> [matched |-> FALSE,
                             message |-> "Error during recognition"]]]
       ELSE threads' = [threads EXCEPT ![t] =
                [pc |-> "vote", op |-> "recognize",
                 query |-> ExtractWith(audio.peaks, config),
                 votes |-> << >>, i |-> 1]]
    /\ UNCHANGED <<db, metadata, disk, ret, addRet, nAdds, call, config>>

\* One round of the vote loop: the lookup of one query fingerprint.
VoteStep(t) ==
    /\ threads[t].pc = "vote"
    /\ threads[t].i <= Len(threads[t].query)
    /\ LET fp == threads[t].query[threads[t].i]
           k == HashKey(fp)
       IN  threads' = [threads EXCEPT ![t] =
               [pc |-> "vote", op |-> "recognize", query |-> threads[t].query,
                votes |-> IF k \in DOMAIN db
                          THEN MultiBucketVotes(threads[t].votes, db[k], fp[4], 1)
                          ELSE threads[t].votes,
                i |-> threads[t].i + 1]]
       /\ db' = AfterLookup(db, k)
    /\ UNCHANGED <<metadata, disk, ret, addRet, nAdds, call, config>>

\* The end of query_multi_song, interpret_match and the return.
FinishRecognize(t) ==
    /\ threads[t].pc = "vote"
    /\ threads[t].i > Len(threads[t].query)
    /\ LET m == BestMatch(threads[t].votes)
       IN  threads' = [threads EXCEPT ![t] =
               [pc |-> "done", op |-> "recognize", failed |-> FALSE,
                query |-> threads[t].query, match |-> m,
                result |-> interpret_match(
                               m[1], m[2], m[3],
                               hop_length_of(config.n_fft, config.hop_ratio),
                               config.sr)]]
    /\ UNCHANGED <<db, metadata, disk, ret, addRet, nAdds, call, config>>

NextConc ==
    \E t \in Threads :
        \/ \E audio \in AudioFiles, song_name \in Songs :
               BeginAddSong(t, audio, song_name)
        \/ MergeTest(t)
        \/ MergeWrite(t)
        \/ FinishAddSong(t)
        \/ \E audio \in AudioFiles : BeginRecognize(t, audio)
        \/ VoteStep(t)
        \/ FinishRecognize(t)

SpecConc == Init /\ [][NextConc]_vars

\* ------------------------------------ builds with another DEFAULT_CONFIG
\* Two configurations that differ in n_fft only, small enough for dt_min,
\* dt_max and fanout to cut fingerprints of a clip of MaxFrame + 1 frames:
\* under ConfigA hop_length = 2 and dt_max = int(5 / 2) = 2, under ConfigB
\* hop_length = 1 and dt_max = 5.
ConfigA ==
    [sr |-> 5, n_fft |-> 4, hop_ratio |-> 2,
     freq_neighborhood |-> 1, time_neighborhood |-> 1,
     amplitude_threshold |-> AmplitudeThreshold, num_bands |-> 1,
     fanout |-> 1, dt_min |-> 2, dt_max_seconds |-> 1]
ConfigB == [ConfigA EXCEPT !.n_fft = 2]
Configs == {ConfigA, ConfigB}

\* The service of a build whose DEFAULT_CONFIG is one of Configs, with no
\* file at db_path.
InitCfg ==
    /\ db = EmptyDict
    /\ metadata = << >>
    /\ disk = NoFile
    /\ ret = [op |-> "init", loaded |-> FALSE]
    /\ addRet = None
    /\ nAdds = 0
    /\ config \in Configs
    /\ threads = NoThreads
    /\ call = NoCall

\* The service under one configuration throughout.
SpecOneCfg == InitCfg /\ [][Next]_vars

\* AudioFingerprintingService() in a build whose DEFAULT_CONFIG is c, over
\* the file the previous process left.
Start(c) ==
    LET l == load_database(EmptyDict, << >>, disk) IN
    /\ config' = c
    /\ db' = l[1]
    /\ metadata' = l[2]
    /\ ret' = [op |-> "init", loaded |-> l[3]]
    /\ addRet' = None
    /\ UNCHANGED <<disk, nAdds, call, threads>>

NextCfg ==
    \/ Next
    \/ \E c \in Configs \ {config} : Start(c)

\* The service across builds with different configurations.
SpecCfg == InitCfg /\ [][NextCfg]_vars

\* ------------------------------------------- direct calls of the library
\* The scores, names and offsets interpret_match and confidence_label are
\* called with.
Scores == (-MaxScore) .. MaxScore
NameArgs == {None, Some("A")}
OffsetArgs == {None, Some(-MaxFrame), Some(0), Some(MaxFrame)}

InitUtils ==
    /\ InitService
    /\ call \in
         {[fn |-> "confidence_label", done |-> FALSE, score |-> sc] :
              sc \in Scores}
         \cup
         {[fn |-> "interpret_match", done |-> FALSE, song_name |-> n,
           best_offset |-> o, score |-> sc] :
              n \in NameArgs, o \in OffsetArgs, sc \in Scores}

CallConfidenceLabel ==
    /\ call.fn = "confidence_label"
    /\ ~call.done
    /\ call' = [fn |-> call.fn, done |-> TRUE, score |-> call.score,
                out |-> confidence_label(call.score)]
    /\ UNCHANGED <<db, metadata, disk, ret, addRet, nAdds, config, threads>>

CallInterpretMatch ==
    /\ call.fn = "interpret_match"
    /\ ~call.done
    /\ call' = [fn |-> call.fn, done |-> TRUE, song_name |-> call.song_name,
                best_offset |-> call.best_offset, score |-> call.score,
                out |-> interpret_match(call.song_name, call.best_offset,
                                        call.score, HopLength, Sr)]
    /\ UNCHANGED <<db, metadata, disk, ret, addRet, nAdds, config, threads>>

NextUtils == CallConfidenceLabel \/ CallInterpretMatch

SpecUtils == InitUtils /\ [][NextUtils]_vars

\* Fingerprint lists handed to build_single_song_db and query_single_song:
\* two hash keys, anchor times 0..MaxTime, at most MaxFps entries,
\* repetitions allowed.
FpUniverse == {<<0, f2, DtMin, t>> : f2 \in {0, 1}, t \in 0 .. MaxTime}
FpLists == UNION {[1 .. n -> FpUniverse] : n \in 0 .. MaxFps}

InitSingle ==
    /\ InitService
    /\ call \in {[fn |-> "query_single_song", done |-> FALSE,
                  db_fps |-> d, query |-> q] : d \in FpLists, q \in FpLists}

CallQuerySingleSong ==
    /\ call.fn = "query_single_song"
    /\ ~call.done
    /\ call' = [fn |-> call.fn, done |-> TRUE, db_fps |-> call.db_fps,
                query |-> call.query,
                out |-> query_single_song(call.query,
                                          build_single_song_db(call.db_fps)),
                multi |-> query_multi_song(
                              call.query,
                              build_song_database(<<<<"A", call.db_fps>>>>)[1])]
    /\ UNCHANGED <<db, metadata, disk, ret, addRet, nAdds, config, threads>>

NextSingle == CallQuerySingleSong

SpecSingle == InitSingle /\ [][NextSingle]_vars

\* Direct calls of extract_fingerprints: peak masks over two frequency
\* bins, and the fields of a configuration that reach the pairing loop.
\* The rates give hop_length 0, 1, 2 and 4 and dt_max 0, 1, 2, 3 and 5.
FpBins == {0, 1}
PeakMasks == SUBSET (Frames \X FpBins)
RateArgs ==
    {[sr |-> r, n_fft |-> n, hop_ratio |-> h, dt_max_seconds |-> 1] :
        r \in {3, 5}, n \in {2, 4}, h \in {1, 2, 3}}

InitFp ==
    /\ InitService
    /\ call \in {[fn |-> "extract_fingerprints", done |-> FALSE, peaks |-> P,
                  rate |-> r, fanout |-> fo, dt_min |-> dm] :
                     P \in PeakMasks, r \in RateArgs,
                     fo \in 1 .. MaxFanout, dm \in 0 .. MaxDtMin}

\* librosa.stft refuses a hop_length that is not positive, so the call
\* raises before any pairing.
CallExtractFingerprints ==
    /\ call.fn = "extract_fingerprints"
    /\ ~call.done
    /\ LET hop == hop_length_of(call.rate.n_fft, call.rate.hop_ratio) IN
       call' = [fn |-> call.fn, done |-> TRUE, peaks |-> call.peaks,
                rate |-> call.rate, fanout |-> call.fanout,
                dt_min |-> call.dt_min,
                raised |-> (hop <= 0),
                out |-> IF hop <= 0 THEN << >>
                        ELSE extract_fingerprints(
                                 call.peaks, call.rate.sr, call.rate.n_fft,
                                 call.rate.hop_ratio, call.fanout, call.dt_min,
                                 call.rate.dt_max_seconds)]
    /\ UNCHANGED <<db, metadata, disk, ret, addRet, nAdds, config, threads>>

NextFp == CallExtractFingerprints

SpecFp == InitFp /\ [][NextFp]_vars

\* Direct calls of the database builders. The fingerprint lists have two
\* hash keys, anchor times 0 and 1, at most MaxFps entries, repetitions
\* allowed. song_fingerprints is a dict, so its items are a sequence of
\* <<song_name, fingerprints>> with distinct names.
DbFpUniverse == {<<0, f2, DtMin, t>> : f2 \in {0, 1}, t \in {0, 1}}
DbFpLists == UNION {[1 .. n -> DbFpUniverse] : n \in 0 .. MaxFps}
SongItems ==
    {<< >>} \cup
    {<<<<n, f>>>> : n \in Songs, f \in DbFpLists} \cup
    {it \in UNION {{<<<<n1, f1>>, <<n2, f2>>>> :
                       f1 \in DbFpLists, f2 \in DbFpLists} :
                          n1 \in Songs, n2 \in Songs} :
        it[1][1] # it[2][1]}

InitDb ==
    /\ InitService
    /\ call \in
         {[fn |-> "build_song_database", done |-> FALSE, items |-> it] :
              it \in SongItems}
         \cup
         {[fn |-> "build_single_song_db", done |-> FALSE, fingerprints |-> f] :
              f \in DbFpLists}

CallBuildSongDatabase ==
    /\ call.fn = "build_song_database"
    /\ ~call.done
    /\ call' = [fn |-> call.fn, done |-> TRUE, items |-> call.items,
                out |-> build_song_database(call.items)]
    /\ UNCHANGED <<db, metadata, disk, ret, addRet, nAdds, config, threads>>

CallBuildSingleSongDb ==
    /\ call.fn = "build_single_song_db"
    /\ ~call.done
    /\ call' = [fn |-> call.fn, done |-> TRUE,
                fingerprints |-> call.fingerprints,
                out |-> build_single_song_db(call.fingerprints)]
    /\ UNCHANGED <<db, metadata, disk, ret, addRet, nAdds, config, threads>>

NextDb == CallBuildSongDatabase \/ CallBuildSingleSongDb

SpecDb == InitDb /\ [][NextDb]_vars

\* Direct calls of validate_config: every field at its default and at
\* values on either side of its limits, and the default configuration with
\* one key left out.
ConfigArgs ==
    {[sr |-> a, n_fft |-> b, hop_ratio |-> c, freq_neighborhood |-> d,
      time_neighborhood |-> e, amplitude_threshold |-> AmplitudeThreshold,
      num_bands |-> f, fanout |-> g, dt_min |-> h, dt_max_seconds |-> i] :
        a \in {0, Sr}, b \in {0, 6, 8, NFft}, c \in {0, 3, HopRatio},
        d \in {0, FreqNeighborhood}, e \in {0, TimeNeighborhood},
        f \in {0, NumBands, 2000}, g \in {0, Fanout},
        h \in {-1, 0, DtMin}, i \in {0, DtMaxSeconds}}
    \cup
    {[k \in DOMAIN DEFAULT_CONFIG \ {required_keys[j]} |-> DEFAULT_CONFIG[k]] :
        j \in 1 .. Len(required_keys)}

InitConfig ==
    /\ InitService
    /\ call \in {[fn |-> "validate_config", done |-> FALSE, config |-> c] :
                     c \in ConfigArgs}

CallValidateConfig ==
    /\ call.fn = "validate_config"
    /\ ~call.done
    /\ call' = [fn |-> call.fn, done |-> TRUE, config |-> call.config,
                out |-> validate_config(call.config)]
    /\ UNCHANGED <<db, metadata, disk, ret, addRet, nAdds, config, threads>>

NextConfig == CallValidateConfig

SpecConfig == InitConfig /\ [][NextConfig]_vars

\* Direct calls that format a position: interpret_match with a frame
\* offset under DEFAULT_CONFIG (one minute is 5168 frames), and
\* seconds_to_mmss with whole and half seconds num / den.
TimeOffsets == (-MaxOffset) .. MaxOffset

InitTime ==
    /\ InitService
    /\ call \in
         {[fn |-> "interpret_match", done |-> FALSE, song_name |-> Some("A"),
           best_offset |-> Some(o), score |-> LowThreshold] :
              o \in TimeOffsets}
         \cup
         {[fn |-> "seconds_to_mmss", done |-> FALSE, num |-> n, den |-> d] :
              n \in TimeOffsets, d \in {1, 2}}

CallSecondsToMmss ==
    /\ call.fn = "seconds_to_mmss"
    /\ ~call.done
    /\ call' = [fn |-> call.fn, done |-> TRUE, num |-> call.num,
                den |-> call.den, out |-> seconds_to_mmss(call.num, call.den)]
    /\ UNCHANGED <<db, metadata, disk, ret, addRet, nAdds, config, threads>>

NextTime == CallInterpretMatch \/ CallSecondsToMmss

SpecTime == InitTime /\ [][NextTime]_vars

\* Direct calls of the peak picker. The band limits are computed for
\* every freq_bins and num_bands up to BandBins. The mask is computed for
\* the spectrograms of n_fft = 4 (three bins) over three frames, each cell
\* at or below amin, 40 dB below full scale, or at full scale,
\* under ConfigA with one to three bands and neighborhoods of 1 and 3.
BandBins == 1 .. 12
SpecFrames == 0 .. 2
SpecFreqs == 0 .. 2
Levels == {AminDb, -40, 0}
Spectrograms == [SpecFrames \X SpecFreqs -> Levels]
PeakConfigs ==
    {[ConfigA EXCEPT !.num_bands = nb, !.freq_neighborhood = n,
                     !.time_neighborhood = n] :
        nb \in 1 .. 3, n \in {1, 3}}

InitPeaks ==
    /\ InitService
    /\ call \in
         {[fn |-> "bands", done |-> FALSE, freq_bins |-> fb, num_bands |-> nb] :
              fb \in BandBins, nb \in BandBins}
         \cup
         {[fn |-> "peaks", done |-> FALSE, S |-> S, cfg |-> c] :
              S \in Spectrograms, c \in PeakConfigs}

\* The limits f_start, f_end the loop gives each band.
CallBands ==
    /\ call.fn = "bands"
    /\ ~call.done
    /\ call' = [fn |-> call.fn, done |-> TRUE, freq_bins |-> call.freq_bins,
                num_bands |-> call.num_bands,
                out |-> [b \in 0 .. call.num_bands - 1 |->
                            <<f_start(b, call.freq_bins, call.num_bands),
                              f_end(b, call.freq_bins, call.num_bands)>>]]
    /\ UNCHANGED <<db, metadata, disk, ret, addRet, nAdds, config, threads>>

CallPeaks ==
    /\ call.fn = "peaks"
    /\ ~call.done
    /\ call' = [fn |-> call.fn, done |-> TRUE, S |-> call.S, cfg |-> call.cfg,
                out |-> extract_from_spectrogram(
                            call.S, Cardinality(SpecFreqs),
                            Cardinality(SpecFrames), call.cfg)]
    /\ UNCHANGED <<db, metadata, disk, ret, addRet, nAdds, config, threads>>

NextPeaks == CallBands \/ CallPeaks

SpecPeaks == InitPeaks /\ [][NextPeaks]_vars

\* Direct calls of the research test runners. What recognize_audio
\* returns for the degraded clip is interpret_match of what the matcher
\* found, with scores on either side of the lowest matching score, or
\* the error result.
RunnerScores == (LowThreshold - 20) .. (LowThreshold + 20)
Runners ==
    {"run_single_noise_test", "run_single_codec_test", "run_single_mic_test"}
RecognizeResults ==
    {interpret_match(n, o, sc, HopLength, Sr) :
        n \in NameArgs, o \in OffsetArgs, sc \in RunnerScores}
    \cup {[matched |-> FALSE, message |-> "Error during recognition"]}

InitRunners ==
    /\ InitService
    /\ call \in {[fn |-> f, done |-> FALSE, result |-> r] :
                     f \in Runners, r \in RecognizeResults}

RunSingleNoiseTest ==
    /\ call.fn = "run_single_noise_test"
    /\ ~call.done
    /\ call' = [fn |-> call.fn, done |-> TRUE, result |-> call.result,
                out |-> runner_report(call.result)]
    /\ UNCHANGED <<db, metadata, disk, ret, addRet, nAdds, config, threads>>

RunSingleCodecTest ==
    /\ call.fn = "run_single_codec_test"
    /\ ~call.done
    /\ call' = [fn |-> call.fn, done |-> TRUE, result |-> call.result,
                out |-> runner_report(call.result)]
    /\ UNCHANGED <<db, metadata, disk, ret, addRet, nAdds, config, threads>>

RunSingleMicTest ==
    /\ call.fn = "run_single_mic_test"
    /\ ~call.done
    /\ call' = [fn |-> call.fn, done |-> TRUE, result |-> call.result,
                out |-> runner_report(call.result)]
    /\ UNCHANGED <<db, metadata, disk, ret, addRet, nAdds, config, threads>>

NextRunners == RunSingleNoiseTest \/ RunSingleCodecTest \/ RunSingleMicTest

SpecRunners == InitRunners /\ [][NextRunners]_vars

\* ================================================================ claims
\* The hash key (f1, f2, dt) of a fingerprint, as the claims name it.
KeyOf(fp) == <<fp[1], fp[2], fp[3]>>

Recognized == ret.op = "recognize" /\ ~ret.failed

Offsets == (-MaxFrame) .. MaxFrame

\* The number of pairs (query fingerprint, index entry) in which the entry
\* lies in the bucket of the fingerprint's hash key, belongs to rid, and
\* sits off frames after the fingerprint.
BucketLen(d, k) == IF k \in DOMAIN d THEN Len(d[k]) ELSE 0
PairCount(q, d, rid, off) ==
    Cardinality({p \in UNION {{<<i, j>> : j \in 1 .. BucketLen(d, HashKey(q[i]))} :
                              i \in 1 .. Len(q)} :
        /\ d[HashKey(q[p[1]])][p[2]][1] = rid
        /\ d[HashKey(q[p[1]])][p[2]][2] - q[p[1]][4] = off})

NoPair(q, d) == \A rid \in Songs, off \in Offsets : PairCount(q, d, rid, off) = 0

\* C1: query_multi_song returns a pair (rid, offset) whose number of
\* (query fingerprint, index entry) pairs is the largest over all pairs,
\* with that number as score; it returns (None, None, 0) exactly when no
\* query fingerprint meets an index entry.
C1_ArgmaxVotes ==
    Recognized =>
        LET m == ret.match IN
        IF NoPair(ret.query, db) THEN m = <<None, None, 0>>
        ELSE /\ m[1] # None /\ m[2] # None
             /\ m[1][1] \in Songs /\ m[2][1] \in Offsets
             /\ m[3] = PairCount(ret.query, db, m[1][1], m[2][1])
             /\ \A rid \in Songs, off \in Offsets :
                    PairCount(ret.query, db, rid, off) <= m[3]

\* Two recordings and two offsets compete, and the winner has two votes.
C1_Witness ==
    /\ Recognized
    /\ ret.match[3] = 2
    /\ Len(ret.query) >= 2
    /\ \E r1, r2 \in Songs, o1, o2 \in Offsets :
          /\ r1 # r2 /\ o1 # o2
          /\ PairCount(ret.query, db, r1, o1) = 1
          /\ PairCount(ret.query, db, r2, o2) = 2

\* The index holds, under rid, exactly the entries of the fingerprint list
\* fps, in its order: rid was ingested once, from fps.
EntriesOf(d, rid, k) ==
    IF k \in DOMAIN d THEN SelectSeq(d[k], LAMBDA e : e[1] = rid) ELSE << >>
ExpectedEntries(fps, rid, k) ==
    LET sel == SelectSeq(fps, LAMBDA f : HashKey(f) = k)
    IN  [i \in 1 .. Len(sel) |-> <<rid, sel[i][4]>>]
IndexedOnce(rid, fps) ==
    /\ rid \in MetaNames(metadata)
    /\ \A k \in DOMAIN db \cup {HashKey(fps[i]) : i \in 1 .. Len(fps)} :
           EntriesOf(db, rid, k) = ExpectedEntries(fps, rid, k)

SelfMatch(rid) == ret.match = <<Some(rid), Some(0), Len(ret.query)>>

OnlyRecording(rid) ==
    \A k \in DOMAIN db : \A j \in 1 .. Len(db[k]) : db[k][j][1] = rid

\* In no bucket does an entry of another recording precede one of rid.
LeadsBuckets(rid) ==
    \A k \in DOMAIN db : \A i, j \in 1 .. Len(db[k]) :
        (i < j /\ db[k][j][1] = rid) => db[k][i][1] = rid

C4_ScoreAtMostQueryLength ==
    Recognized => ret.match[3] <= Len(ret.query)

NoKeyIndexed ==
    \A i \in 1 .. Len(ret.query) : HashKey(ret.query[i]) \notin DOMAIN db

\* C7: when no hash key of the query is in the index, the matcher returns
\* (None, None, 0) and the result is matched=false with raw_score 0.
C7_NoKeyNoMatch ==
    (Recognized /\ NoKeyIndexed) =>
        /\ ret.match = <<None, None, 0>>
        /\ ret.result.matched = FALSE
        /\ "raw_score" \in DOMAIN ret.result
        /\ ret.result.raw_score = 0

\* A non-empty query against a non-empty index that shares no key with it.
C7_Witness ==
    /\ Recognized /\ NoKeyIndexed
    /\ ret.query # << >>
    /\ db # EmptyDict
    /\ ret.result.matched = FALSE

\* C8: add_song under a name that already has metadata reports an error
\* and changes neither the index nor the metadata.
C8_ReingestRejected ==
    [][(nAdds' = nAdds + 1 /\ ret'.song_name \in MetaNames(metadata))
       => (~ret'.success /\ db' = db /\ metadata' = metadata)]_vars

\* C9: get_songs_list after a successful add_song(rid) shows rid exactly
\* once, with the fingerprint count add_song returned.
C9_ListAfterAdd ==
    (ret.op = "list" /\ addRet # None /\ addRet[1].success) =>
        LET hits == {i \in 1 .. Len(ret.songs) :
                        ret.songs[i].name = addRet[1].song_name}
        IN  /\ Cardinality(hits) = 1
            /\ \A i \in hits : ret.songs[i].fingerprints_count = addRet[1].count

\* The list follows a second ingest under the same name with another count.
C9_Witness ==
    /\ ret.op = "list"
    /\ nAdds = 2
    /\ addRet # None /\ addRet[1].success /\ addRet[1].count = 2
    /\ Len(ret.songs) = 1
    /\ ret.songs[1].fingerprints_count = 2
    /\ Cardinality(UNION {{<<k, i>> : i \in 1 .. Len(db[k])} : k \in DOMAIN db}) = 3

\* C10: every recording id of an index entry has a metadata entry.
C10_EntriesHaveMetadata ==
    \A k \in DOMAIN db : \A j \in 1 .. Len(db[k]) :
        db[k][j][1] \in MetaNames(metadata)

\* A restarted service that loaded two recordings from the file.
C10_Witness ==
    /\ ret.op = "init" /\ ret.loaded
    /\ db # EmptyDict
    /\ Len(metadata) = 2

\* C11: every hash key (f1, f2, dt) of the index has
\* dt_min <= dt <= floor(dt_max_seconds * sr / (n_fft div hop_ratio)),
\* whatever was added under the one configuration of the service.
C11_StoredDtInRange ==
    \A k \in DOMAIN db :
        /\ config.dt_min <= k[3]
        /\ k[3] <= (config.dt_max_seconds * config.sr)
                       \div (config.n_fft \div config.hop_ratio)

\* Two recordings were added where dt_max = 2: only dt = 2 is stored,
\* though the clips have peaks one and three frames apart as well.
C11_Witness ==
    /\ config = ConfigA
    /\ nAdds = 2
    /\ Len(metadata) = 2
    /\ DOMAIN db = {<<0, 0, 2>>}
    /\ Len(db[<<0, 0, 2>>]) = 4

\* The latest add_song of this service instance got True from
\* save_database; nothing has written the index or the file since.
Saved == addRet # None /\ addRet[1].success /\ addRet[1].saved = Some(TRUE)

ReadableFiles == {a \in AudioFiles : a.readable}

C15_IncompatibleRefused ==
    [][(Saved /\ db # EmptyDict /\ config' # config) =>
          /\ ~ret'.loaded
          /\ db' = EmptyDict
          /\ metadata' = << >>]_vars

\* C16: when save_database fails inside add_song, add_song does not
\* report success and the file at db_path is the one that was there before.
C16_SaveFailureSurfaced ==
    [][(nAdds' = nAdds + 1 /\ ret'.saved = Some(FALSE)) =>
          /\ ~ret'.success
          /\ disk' = disk]_vars

\* C17: a recognize_audio in which loading, extraction or matching failed
\* does not return a recognition result with matched = false.
C17_ErrorsSurfaced ==
    (ret.op = "recognize" /\ ret.failed) =>
        ~("matched" \in DOMAIN ret.result /\ ret.result.matched = FALSE)

\* The lookup of the key of every fingerprint of fps in the index d
\* contains the entry (rid, t1).
Sees(d, rid, fps) ==
    \A i \in 1 .. Len(fps) :
        /\ KeyOf(fps[i]) \in DOMAIN d
        /\ \E j \in 1 .. Len(d[KeyOf(fps[i])]) :
               d[KeyOf(fps[i])][j] = <<rid, fps[i][4]>>

\* Every entry of the index d is an entry of the index e, in its bucket.
KeepsEntries(d, e) ==
    \A k \in DOMAIN d :
        /\ k \in DOMAIN e
        /\ \A j \in 1 .. Len(d[k]) : \E j2 \in 1 .. Len(e[k]) : e[k][j2] = d[k][j]

\* C19: when add_song(R) returns success the index holds (R, t1) under the
\* key of every fingerprint it extracted; no later call on the service
\* takes an entry away; and a recognize_audio looks its keys up in that
\* index, so it sees the fingerprints of every add that returned before.
C19_ReadYourWrites ==
    [][/\ (nAdds' = nAdds + 1 /\ ret'.success) =>
              Sees(db', ret'.song_name, ret'.fingerprints)
       /\ (ret'.op # "init") => KeepsEntries(db, db')
       /\ (ret'.op = "recognize" /\ ~ret'.failed) =>
              /\ ret'.match = query_multi_song(ret'.query, db)
              /\ (addRet # None /\ addRet[1].success) =>
                     Sees(db, addRet[1].song_name, addRet[1].fingerprints)]_vars

\* After add_song("A") and then add_song("B") into the same bucket, a
\* query with B's clip finds B.
C19_Witness ==
    /\ ret.op = "recognize" /\ ~ret.failed
    /\ nAdds = 2
    /\ addRet # None /\ addRet[1].success
    /\ addRet[1].song_name = "B"
    /\ Len(addRet[1].fingerprints) = 2
    /\ ret.query = addRet[1].fingerprints
    /\ \E k \in DOMAIN db : db[k][1][1] = "A" /\ db[k][Len(db[k])][1] = "B"
    /\ ret.match = <<Some("B"), Some(0), 2>>

\* The states of the index that lie entirely before or entirely after
\* the add of the other thread o, the index having started empty: the
\* empty index and, once o has built its new_db, that new_db.
WholeIndexes(o) ==
    {EmptyDict} \cup
    (IF "new_db" \in DOMAIN threads[o] THEN {threads[o].new_db} ELSE {})

AddedOk(t) ==
    threads[t].pc = "done" /\ threads[t].op = "add" /\ threads[t].success

\* C20: with calls overlapping on two threads, a recognize_audio returns
\* what query_multi_song returns on the index entirely before or entirely
\* after the other thread's add, and two add_song calls leave the index
\* that one of them after the other leaves.
C20_ConsistentSnapshot ==
    /\ \A r \in Threads : \A o \in Threads \ {r} :
           (/\ threads[r].pc = "done"
            /\ threads[r].op = "recognize"
            /\ ~threads[r].failed) =>
               \E d \in WholeIndexes(o) :
                   threads[r].match = query_multi_song(threads[r].query, d)
    /\ (AddedOk(1) /\ AddedOk(2)) =>
           db \in {MergeDb(threads[1].new_db, threads[2].new_db),
                   MergeDb(threads[2].new_db, threads[1].new_db)}

\* ----------------------------------------------- claims on direct calls
Called(fn) == call.fn = fn /\ call.done

\* Every query fingerprint is a database fingerprint of the same hash key
\* whose anchor time is k frames later.
ShiftedInto(q, fps, k) ==
    \A i \in 1 .. Len(q) : \E j \in 1 .. Len(fps) :
        HashKey(fps[j]) = HashKey(q[i]) /\ q[i][4] = fps[j][4] - k

Shifts == (-MaxTime) .. MaxTime

NoDuplicates(fps) ==
    \A i, j \in 1 .. Len(fps) : fps[i] = fps[j] => i = j

\* C3 (as claimed, read over a non-empty query and lists without
\* repetitions): if the query is the database shifted by k,
\* query_single_song returns offset k and the number of query fingerprints
\* as score.
C3_TimeShift ==
    (/\ Called("query_single_song")
     /\ call.query # << >>
     /\ NoDuplicates(call.query)
     /\ NoDuplicates(call.db_fps)) =>
        \A k \in Shifts : ShiftedInto(call.query, call.db_fps, k) =>
            call.out = <<Some(k), Len(call.query)>>

\* C3 (amended): if a non-empty query is the database shifted by some k,
\* the score is at least the number of query fingerprints; when the
\* database fingerprints are distinct the score equals that number and the
\* returned offset is a shift that maps the query into the database, so it
\* is k when only one shift does.
C3_TimeShiftAmended ==
    (/\ Called("query_single_song")
     /\ call.query # << >>
     /\ \E k \in Shifts : ShiftedInto(call.query, call.db_fps, k)) =>
        /\ call.out[2] >= Len(call.query)
        /\ NoDuplicates(call.db_fps) =>
              /\ call.out[2] = Len(call.query)
              /\ call.out[1] # None
              /\ ShiftedInto(call.query, call.db_fps, call.out[1][1])
              /\ \A k \in Shifts :
                    (/\ ShiftedInto(call.query, call.db_fps, k)
                     /\ \A k2 \in Shifts \ {k} :
                           ~ShiftedInto(call.query, call.db_fps, k2))
                    => call.out = <<Some(k), Len(call.query)>>

\* Two query fingerprints of different keys, found one frame later in the
\* database, and no other shift fits.
C3_Witness ==
    /\ Called("query_single_song")
    /\ Len(call.query) = 2
    /\ HashKey(call.query[1]) # HashKey(call.query[2])
    /\ NoDuplicates(call.db_fps)
    /\ ShiftedInto(call.query, call.db_fps, 1)
    /\ \A k2 \in Shifts \ {1} : ~ShiftedInto(call.query, call.db_fps, k2)
    /\ call.out = <<Some(1), 2>>

\* C5: confidence_label gives every score the label of its range:
\* below 200, [200, 1000), [1000, 3000), 3000 and above.
C5_ConfidenceLabel ==
    Called("confidence_label") =>
        LET sc == call.score IN
        /\ (sc < 200) <=> (call.out = "No match")
        /\ (200 <= sc /\ sc < 1000) <=> (call.out = "Low confidence")
        /\ (1000 <= sc /\ sc < 3000) <=> (call.out = "Medium confidence")
        /\ (sc >= 3000) <=> (call.out = "High confidence")

\* A boundary value falls in the upper range.
C5_Witness ==
    /\ Called("confidence_label")
    /\ call.score = 3000
    /\ call.out = "High confidence"

PeakLess(p, q) == p[1] < q[1] \/ (p[1] = q[1] /\ p[2] < q[2])
RefPeaks(P) ==
    [i \in 1 .. Cardinality(P) |->
        CHOOSE p \in P : Cardinality({q \in P : PeakLess(q, p)}) = i - 1]
RefDtMax(rate) ==
    (rate.dt_max_seconds * rate.sr) \div (rate.n_fft \div rate.hop_ratio)
RefValid(s, i, dtmin, dtmax) ==
    SelectSeq(SubSeq(s, i + 1, Len(s)),
              LAMBDA p : dtmin <= p[1] - s[i][1] /\ p[1] - s[i][1] <= dtmax)
RefOfAnchor(s, i, fanout, dtmin, dtmax) ==
    LET valid == RefValid(s, i, dtmin, dtmax)
        n == IF Len(valid) < fanout THEN Len(valid) ELSE fanout
    IN  [j \in 1 .. n |-> <<s[i][2], valid[j][2], valid[j][1] - s[i][1], s[i][1]>>]
RECURSIVE RefFrom(_, _, _, _, _)
RefFrom(s, i, fanout, dtmin, dtmax) ==
    IF i > Len(s) THEN << >>
    ELSE RefOfAnchor(s, i, fanout, dtmin, dtmax) \o
         RefFrom(s, i + 1, fanout, dtmin, dtmax)

\* The fingerprints of the list fps whose anchor is the peak p.
EmittedBy(fps, p) ==
    {i \in 1 .. Len(fps) : fps[i][4] = p[1] /\ fps[i][1] = p[2]}

\* C12: extract_fingerprints returns what the reference procedure returns:
\* anchors in (t, f) order, for each anchor its first min(fanout, n) valid
\* later peaks in that order; no anchor emits more than fanout.
C12_ReferenceOrder ==
    (Called("extract_fingerprints") /\ ~call.raised) =>
        LET s == RefPeaks(call.peaks)
            dtmax == RefDtMax(call.rate)
        IN  /\ call.out = RefFrom(s, 1, call.fanout, call.dt_min, dtmax)
            /\ \A p \in call.peaks :
                   Cardinality(EmittedBy(call.out, p)) <= call.fanout

\* With fanout 1, dt_min 2 and dt_max 2: the anchor (0, 0) passes a peak
\* one frame later and stops at the peaks three frames later; the anchor
\* (1, 0) has two valid targets in frame 3 and emits the one of the lower
\* bin.
C12_Witness ==
    /\ Called("extract_fingerprints") /\ ~call.raised
    /\ call.fanout = 1 /\ call.dt_min = 2
    /\ RefDtMax(call.rate) = 2
    /\ call.peaks = {<<0, 0>>, <<1, 0>>, <<3, 0>>, <<3, 1>>}
    /\ call.out = <<<<0, 0, 2, 1>>>>

\* The input of build_song_database as one list of <<song, fingerprint>>,
\* in the order of the items and, within an item, of its list.
RECURSIVE Tagged(_, _)
Tagged(items, i) ==
    IF i > Len(items) THEN << >>
    ELSE [j \in 1 .. Len(items[i][2]) |-> <<items[i][1], items[i][2][j]>>] \o
         Tagged(items, i + 1)

\* C13: build_song_database stores one entry per input fingerprint: the
\* bucket of a key is the list of (song, t1) of the input fingerprints with
\* that key, in input order; there is no other key; and
\* metadata[song].num_fingerprints is the length of the song's list.
\* build_single_song_db does the same with t1 alone.
C13_OneEntryPerFingerprint ==
    /\ Called("build_song_database") =>
          LET all == Tagged(call.items, 1)
              d == call.out[1]
              md == call.out[2]
          IN  /\ DOMAIN d = {KeyOf(all[i][2]) : i \in 1 .. Len(all)}
              /\ \A k \in DOMAIN d :
                     LET sel == SelectSeq(all, LAMBDA e : KeyOf(e[2]) = k)
                     IN  d[k] = [i \in 1 .. Len(sel) |-> <<sel[i][1], sel[i][2][4]>>]
              /\ DOMAIN md = {call.items[i][1] : i \in 1 .. Len(call.items)}
              /\ \A i \in 1 .. Len(call.items) :
                     md[call.items[i][1]] =
                         [num_fingerprints |-> Len(call.items[i][2])]
    /\ Called("build_single_song_db") =>
          LET fps == call.fingerprints
              d == call.out
          IN  /\ DOMAIN d = {KeyOf(fps[i]) : i \in 1 .. Len(fps)}
              /\ \A k \in DOMAIN d :
                     LET sel == SelectSeq(fps, LAMBDA f : KeyOf(f) = k)
                     IN  d[k] = [i \in 1 .. Len(sel) |-> sel[i][4]]

\* Two songs share a key: its bucket holds the first song's entries, then
\* the second's, each in list order, a repeated fingerprint twice.
C13_Witness ==
    /\ Called("build_song_database")
    /\ Len(call.items) = 2
    /\ call.items[1][1] = "B"
    /\ call.items[1][2] = <<<<0, 0, DtMin, 1>>, <<0, 1, DtMin, 0>>>>
    /\ call.items[2][2] = <<<<0, 0, DtMin, 0>>, <<0, 0, DtMin, 0>>>>
    /\ call.out[1][<<0, 0, DtMin>>] = <<<<"B", 1>>, <<"A", 0>>, <<"A", 0>>>>
    /\ call.out[2]["A"].num_fingerprints = 2

\* The constraints of the configuration table.
IsPowerOfTwo(n) == \E e \in 0 .. 12 : n = 2 ^ e
TableOk(cfg) ==
    /\ cfg.sr > 0
    /\ cfg.n_fft > 0 /\ IsPowerOfTwo(cfg.n_fft)
    /\ cfg.hop_ratio > 0 /\ cfg.n_fft % cfg.hop_ratio = 0
    /\ cfg.freq_neighborhood >= 1
    /\ cfg.time_neighborhood >= 1
    /\ cfg.num_bands >= 1 /\ 2 * cfg.num_bands <= cfg.n_fft
    /\ cfg.fanout >= 1
    /\ cfg.dt_min >= 0
    /\ cfg.dt_max_seconds > 0

\* C18: validate_config returns True for a configuration that satisfies
\* every constraint of the configuration table and raises for any other.
C18_ValidateConfig ==
    (Called("validate_config") /\ DOMAIN call.config = DOMAIN DEFAULT_CONFIG) =>
        (call.out.ok <=> TableOk(call.config))

\* The label "M:SS" of s whole seconds, as <<M, tens digit, units digit>>.
IsLabelOf(label, s) ==
    /\ Len(label) = 3
    /\ label[1] >= 0
    /\ label[2] \in 0 .. 5
    /\ label[3] \in 0 .. 9
    /\ label[1] * 60 + label[2] * 10 + label[3] = s

\* s = floor(|num / den|), for den > 0.
IsFloorAbs(s, num, den) ==
    /\ s >= 0
    /\ s * den <= Abs(num)
    /\ Abs(num) < (s + 1) * den

\* C21: the position label is M:SS of s = floor(|best_offset * hop / sr|),
\* SS in 00..59 and M * 60 + SS = s; the offsets k and -k get one label.
C21_PositionLabel ==
    /\ (Called("interpret_match") /\ call.out.matched) =>
          LET k == call.best_offset[1] IN
          /\ \E s \in 0 .. MaxOffset :
                 /\ IsFloorAbs(s, k * HopLength, Sr)
                 /\ IsLabelOf(call.out.position_in_song, s)
          /\ call.out.position_in_song =
                 interpret_match(call.song_name, Some(-k), call.score,
                                 HopLength, Sr).position_in_song
    /\ Called("seconds_to_mmss") =>
          /\ \E s \in 0 .. MaxOffset :
                 /\ IsFloorAbs(s, call.num, call.den)
                 /\ IsLabelOf(call.out, s)
          /\ call.out = seconds_to_mmss(-call.num, call.den)

\* An offset of -5168 frames lies just over one minute before the start:
\* the label is 1:00.
C21_Witness ==
    /\ Called("interpret_match")
    /\ call.best_offset = Some(-5168)
    /\ call.out.matched
    /\ call.out.position_in_song = <<1, 0, 0>>

\* The votes of a query in the order they are cast: query fingerprints in
\* list order and, within a fingerprint, the entries of its bucket in
\* bucket order, each as <<rid, offset>>.
RECURSIVE VotesCast(_, _, _)
VotesCast(q, d, i) ==
    IF i > Len(q) THEN << >>
    ELSE LET k == KeyOf(q[i])
             bucket == IF k \in DOMAIN d THEN d[k] ELSE << >>
         IN  [j \in 1 .. Len(bucket) |-> <<bucket[j][1], bucket[j][2] - q[i][4]>>]
             \o VotesCast(q, d, i + 1)

CountOf(cast, p) == Cardinality({i \in 1 .. Len(cast) : cast[i] = p})
FirstOf(cast, p) ==
    CHOOSE i \in 1 .. Len(cast) :
        cast[i] = p /\ \A j \in 1 .. i - 1 : cast[j] # p

\* C22: among the pairs (rid, offset) with the largest vote count,
\* query_multi_song returns the one whose first vote was cast earliest;
\* and a recognize_audio that follows another with the same query on the
\* same index returns the same match.
C22_FirstOccurrenceWins ==
    [][/\ (ret'.op = "recognize" /\ ~ret'.failed /\ ret'.match[3] > 0) =>
              LET cast == VotesCast(ret'.query, db', 1)
                  best == <<ret'.match[1][1], ret'.match[2][1]>>
              IN  /\ CountOf(cast, best) = ret'.match[3]
                  /\ \A i \in 1 .. Len(cast) :
                         \/ CountOf(cast, cast[i]) < ret'.match[3]
                         \/ FirstOf(cast, best) <= i
       /\ (/\ Recognized
           /\ ret'.op = "recognize" /\ ~ret'.failed
           /\ ret'.query = ret.query
           /\ db' = db) => ret'.match = ret.match]_vars

\* Two pairs have two votes each; the one returned got its first vote
\* before the other, which belongs to another recording.
C22_Witness ==
    /\ Recognized
    /\ ret.match[3] = 2
    /\ LET cast == VotesCast(ret.query, db, 1)
           best == <<ret.match[1][1], ret.match[2][1]>>
       IN  \E i \in 1 .. Len(cast) :
              /\ cast[i] # best
              /\ cast[i][1] # best[1]
              /\ CountOf(cast, cast[i]) = 2
              /\ FirstOf(cast, best) < FirstOf(cast, cast[i])
              /\ FirstOf(cast, best) > 1

\* The band the claim gives bin f: b with b * w <= f < (b + 1) * w, the
\* last band for the bins beyond.
BandOf(f, freq_bins, num_bands) ==
    LET w == freq_bins \div num_bands
    IN  IF f \div w >= num_bands THEN num_bands - 1 ELSE f \div w

\* C23: for freq_bins >= num_bands >= 1 band b covers [b * w, (b + 1) * w)
\* with w = freq_bins div num_bands, the last band reaching freq_bins; every
\* bin lies in exactly one band, and a cell is marked exactly when it is
\* the largest of the neighborhood within its own band and above the
\* threshold.
C23_BandsPartition ==
    /\ (Called("bands") /\ call.freq_bins >= call.num_bands) =>
          LET w == call.freq_bins \div call.num_bands
              last == call.num_bands - 1
          IN  /\ \A b \in 0 .. last :
                     /\ call.out[b][1] = b * w
                     /\ call.out[b][2] =
                            IF b = last THEN call.freq_bins ELSE (b + 1) * w
                     /\ call.out[b][1] < call.out[b][2]
              /\ \A f \in 0 .. call.freq_bins - 1 :
                     Cardinality({b \in 0 .. last :
                         call.out[b][1] <= f /\ f < call.out[b][2]}) = 1
              /\ \A f \in 0 .. call.freq_bins - 1 :
                     LET b == BandOf(f, call.freq_bins, call.num_bands)
                     IN  call.out[b][1] <= f /\ f < call.out[b][2]
    /\ Called("peaks") =>
          LET S_db == amplitude_to_db(call.S)
              nb == call.cfg.num_bands
              fb == Cardinality(SpecFreqs)
              hf == call.cfg.freq_neighborhood \div 2
              ht == call.cfg.time_neighborhood \div 2
          IN  \A c \in DOMAIN call.S :
                  (c \in call.out.peaks) <=>
                      /\ S_db[c] > call.cfg.amplitude_threshold
                      /\ \A c2 \in DOMAIN call.S :
                             (/\ BandOf(c2[2], fb, nb) = BandOf(c[2], fb, nb)
                              /\ Abs(c2[1] - c[1]) <= ht
                              /\ Abs(c2[2] - c[2]) <= hf)
                             => S_db[c2] <= S_db[c]

\* Twelve bins in five bands: four bands of two bins and a last one of
\* four.
C23_Witness ==
    /\ Called("bands")
    /\ call.freq_bins = 12 /\ call.num_bands = 5
    /\ call.out[3] = <<6, 8>>
    /\ call.out[4] = <<8, 12>>

\* The spectrogram of an all-zero sample buffer: every magnitude is zero.
Silent(S) == \A c \in DOMAIN S : S[c] = AminDb

\* C24: for silence the peak picker marks no cell and the fingerprinter
\* returns no fingerprint (so that a query with it gets no vote and
\* matched = false).
C24_SilenceYieldsNothing ==
    (Called("peaks") /\ Silent(call.S)) =>
        /\ call.out.peaks = {}
        /\ call.out.fingerprints = << >>

\* C25: recognize_audio and get_songs_list, with the matcher they call,
\* leave the index, the metadata and the file as they are, also when a key
\* the query looks up is not in the index; a step that changes the index or
\* the metadata is an add_song or the load of a new service.
C25_QueriesReadOnly ==
    [][/\ ret'.op \in {"recognize", "list"} =>
              /\ db' = db
              /\ DOMAIN db' = DOMAIN db
              /\ metadata' = metadata
              /\ disk' = disk
       /\ (db' # db \/ metadata' # metadata) =>
              (nAdds' = nAdds + 1 \/ ret'.op = "init")]_vars

\* A query looked up a key the index has and one it lacks, in an index of
\* two recordings.
C25_Witness ==
    /\ Recognized
    /\ Len(metadata) = 2
    /\ \E i \in 1 .. Len(ret.query) : KeyOf(ret.query[i]) \in DOMAIN db
    /\ \E i \in 1 .. Len(ret.query) : KeyOf(ret.query[i]) \notin DOMAIN db

\* The number of entries (rid, t1) over all buckets of the index d.
EntryCount(d, rid) ==
    Cardinality({p \in UNION {{<<k, j>> : j \in 1 .. Len(d[k])} : k \in DOMAIN d} :
                    d[p[1]][p[2]][1] = rid})

\* C26: for every recording of the metadata, the index holds as many
\* entries under its id as metadata[rid].num_fingerprints says.
C26_CountsAgree ==
    \A i \in 1 .. Len(metadata) :
        EntryCount(db, metadata[i][1]) = metadata[i][2].num_fingerprints

\* C27: on the same fingerprint list F and query Q, query_single_song over
\* build_single_song_db(F) and query_multi_song over
\* build_song_database({"A": F}) return the same offset and score, the
\* latter naming "A" exactly when there is an offset.
C27_SingleEqualsMulti ==
    Called("query_single_song") =>
        /\ call.multi[2] = call.out[1]
        /\ call.multi[3] = call.out[2]
        /\ (call.out[2] > 0) => call.multi[1] = Some("A")
        /\ (call.out[2] = 0) => (call.out[1] = None /\ call.multi[1] = None)
        /\ (call.out[1] = None) <=> (call.out[2] = 0)

\* A list with a repeated fingerprint: both matchers count it twice and
\* agree on offset 1 and score 2.
C27_Witness ==
    /\ Called("query_single_song")
    /\ ~NoDuplicates(call.db_fps)
    /\ Len(call.query) = 1
    /\ call.out = <<Some(1), 2>>
    /\ call.multi = <<Some("A"), Some(1), 2>>

ScoreOf(q, d) == query_multi_song(q, d)[3]

\* The index d without the entries of the recordings other than rid.
Restrict(d, rid) ==
    [k \in DOMAIN d |-> SelectSeq(d[k], LAMBDA e : e[1] = rid)]

\* C28: the score of query_multi_song does not decrease when a
\* fingerprint is appended to the query, nor, for any query, when add_song
\* adds a recording to the index.
C28_ScoreMonotone ==
    [][/\ (ret'.op = "recognize" /\ ~ret'.failed) =>
              \A n \in 1 .. Len(ret'.query) :
                  ScoreOf(SubSeq(ret'.query, 1, n - 1), db')
                      <= ScoreOf(SubSeq(ret'.query, 1, n), db')
       /\ (nAdds' = nAdds + 1) =>
              \A a \in ReadableFiles :
                  ScoreOf(ExtractWith(a.peaks, config), db)
                      <= ScoreOf(ExtractWith(a.peaks, config), db')]_vars

\* The second recording was added into the buckets of the first, and a
\* query that scored 1 on the first alone now scores 2.
C28_Witness ==
    /\ ret.op = "add" /\ ret.success
    /\ nAdds = 2
    /\ Len(metadata) = 2
    /\ \E k \in DOMAIN db : db[k][1][1] # db[k][Len(db[k])][1]
    /\ \E a \in ReadableFiles :
          /\ ScoreOf(ExtractWith(a.peaks, config), Restrict(db, metadata[1][1])) = 1
          /\ ScoreOf(ExtractWith(a.peaks, config), db) = 2

\* C29: an add_song that returns success = false returns the count 0 and
\* an error message and leaves the index and the metadata as they were
\* before the call.
C29_FailedAddChangesNothing ==
    [][(nAdds' = nAdds + 1 /\ ~ret'.success) =>
          /\ ret'.count = 0
          /\ ret'.message = "Error adding song"
          /\ db' = db
          /\ metadata' = metadata]_vars

\* An add under a new name failed on a service that holds a recording:
\* the index and the metadata hold that recording alone.
C29_Witness ==
    /\ ret.op = "add" /\ ~ret.success
    /\ nAdds = 2
    /\ db # EmptyDict
    /\ Len(metadata) = 1
    /\ ret.song_name \notin MetaNames(metadata)
    /\ OnlyRecording(metadata[1][1])

\* C30: when recognize_audio returned matched = true for the degraded
\* clip, the test runner reports matched = true, the recognized song as
\* detected_song, and the score of the result.
C30_RunnerReportsMatch ==
    (call.fn \in Runners /\ call.done /\ call.result.matched) =>
        /\ call.out.matched
        /\ call.out.detected_song = Some(call.result.song)
        /\ call.out.score = call.result.raw_score

====
